---- MODULE Spec2Model ----
(***************************************************************************)
(* Model of the nexus-compiler code generator                              *)
(* (src/src/nexus/code_generator.rs): the 256-cell image, the byte-append  *)
(* primitives, string interning, the lowering of the AST statements, the   *)
(* backpatching pass and the rendering of the image.                       *)
(***************************************************************************)
EXTENDS Integers, Naturals, Sequences, FiniteSets, TLC

VARIABLES
    build,          \* "debug": u8/usize overflow panics; "release": it wraps
    pc,             \* position inside compile and generate_code
    stream,         \* the source stream: per program its AST, or the failure
                    \* of its lex or of its parse
    ast,            \* the AST handed to generate_code (root Block)
    next_stmt,      \* index of the next child of the root block
    program_number, \* number of programs started so far
    cg,             \* the CodeGenerator struct, the symbol table cursor, the log
    panes,          \* the panes display_code has appended, oldest first
    stages,         \* the stages run so far, each with its program number
    vm              \* the target machine running an emitted sequence

vars == <<build, pc, stream, ast, next_stmt, program_number, cg, panes, stages,
          vm>>

----------------------------------------------------------------------------
(* Bounds of the model *)

\* length of the longest string literal of the input programs
LongLen == 254

\* number of statements drawn from the pool in the generated programs
PoolLen == 2

\* number of writes attempted after the image has saturated
MaxRejected == 2

\* largest value the registers of the target machine start with
MaxReg == 3

----------------------------------------------------------------------------
(* Image cells: enum CodeGenBytes *)

MemSize == 256

NoScope == -1

Code(b) == [k |-> "Code", v |-> b]
Var(o) == [k |-> "Var", v |-> o]
Temp(o) == [k |-> "Temp", v |-> o]
Empty == [k |-> "Empty", v |-> 0]
Data(b) == [k |-> "Data", v |-> b]
Jump(j) == [k |-> "Jump", v |-> j]

EmptyMap == [x \in {} |-> 0]

MapInsert(m, key, val) ==
    [x \in (DOMAIN m) \cup {key} |-> IF x = key THEN val ELSE m[x]]

\* the value an Option holds when it is None
None == -1

----------------------------------------------------------------------------
(* 8-bit arithmetic: an overflowing +, - panics in a debug build and wraps *)
(* in a release build                                                      *)

Overflows(x) == x < 0 \/ x > 255

Wrap(x) == (x + MemSize) % MemSize

Panic(s) == [s EXCEPT !.panicked = TRUE]

\* history: the expression what was evaluated and is out of range
Fault(s, what) == [s EXCEPT !.faults = @ \cup {what}]

\* history: a u8 expression was evaluated to x
Arith(s, x, what) == IF Overflows(x) THEN Fault(s, what) ELSE s

\* nexus_log::log(LogTypes::Error, LogSources::CodeGenerator, ...)
LogError(s, kind) == [s EXCEPT !.log = Append(@, kind)]

----------------------------------------------------------------------------
(* CodeGenerator::new *)

NewCodeGenerator ==
    [ max_scope      |-> NoScope,
      code_arr       |-> [i \in 0..(MemSize - 1) |-> Empty],
      code_pointer   |-> 0,
      heap_pointer   |-> 254,
      static_table   |-> EmptyMap,
      temp_index     |-> 0,
      string_history |-> EmptyMap,
      jumps          |-> <<>>,
      is_memory_full |-> FALSE,
      \* symbol table handed to generate_code
      scopes         |-> <<>>,
      cur_scope      |-> None,
      \* control: a panic ends the compile; ret is the last bool returned,
      \* addr the last Option<u8> returned (None when there is none)
      panicked       |-> FALSE,
      ret            |-> TRUE,
      addr           |-> None,
      \* errors logged through nexus_log for the current program
      log            |-> <<>>,
      \* history of the calls made while emitting the current program
      pre            |-> 0,
      scope_calls    |-> <<>>,
      store_calls    |-> <<>>,
      if_log         |-> <<>>,
      while_log      |-> <<>>,
      emitted        |-> <<>>,
      \* the writes that were performed, and the kind of cell of each write
      \* that was refused, in the order of the calls
      writes         |-> 0,
      rejected       |-> <<>>,
      \* one record per if or while with the literal false as its condition
      dead_log       |-> <<>>,
      \* the least value temp_index took, the add_temp calls that were made
      \* and temp_index on entry to and on exit from each lowering
      temp_low       |-> 0,
      temp_refs      |-> {},
      balance_log    |-> {},
      \* the key and the offset of each static_table.insert, in order
      decl_log       |-> <<>>,
      \* the u8 expressions whose value left 0..255 and the indexings of
      \* jumps past its end, by the name of the expression
      faults         |-> {},
      \* one record per comparison that was lowered
      compare_log    |-> {} ]

----------------------------------------------------------------------------
(* Byte-append primitives *)

on_last_byte(s) == s.code_pointer = s.heap_pointer

\* the shared body of add_code, add_var, add_temp: write cell at code_pointer
CodeSideWrite(s, cell) ==
    IF s.panicked THEN s
    ELSE IF ~s.is_memory_full
    THEN [s EXCEPT !.is_memory_full = on_last_byte(s),
                   !.code_arr[s.code_pointer] = cell,
                   !.code_pointer = s.code_pointer + 1,
                   !.ret = TRUE,
                   !.writes = s.writes + 1]
    ELSE [LogError(s, "stack") EXCEPT !.ret = FALSE,
                                      !.rejected = Append(@, cell.k)]

add_code(s, code) == CodeSideWrite(s, Code(code))

add_var(s, var) == CodeSideWrite(s, Var(var))

add_temp(s, temp) == CodeSideWrite(s, Temp(temp))

add_data(s, data) ==
    IF s.panicked THEN s
    ELSE IF ~s.is_memory_full
    THEN LET w == Arith([s EXCEPT !.is_memory_full = on_last_byte(s),
                                  !.code_arr[s.heap_pointer] = Data(data),
                                  !.writes = s.writes + 1],
                        s.heap_pointer - 1, "heap_pointer - 1")
         IN  IF Overflows(s.heap_pointer - 1) /\ build = "debug"
             THEN Panic(w)
             ELSE [w EXCEPT !.heap_pointer = Wrap(s.heap_pointer - 1),
                            !.ret = TRUE]
    ELSE [LogError(s, "heap") EXCEPT !.ret = FALSE,
                                     !.rejected = Append(@, "Data")]

\* add_jump that pushes to jumps before it looks at the flag
add_jump_AlwaysPushes(s) ==
    IF s.panicked THEN s
    ELSE IF ~s.is_memory_full
    THEN [s EXCEPT !.is_memory_full = on_last_byte(s),
                   !.code_arr[s.code_pointer] = Jump(Len(s.jumps)),
                   !.code_pointer = s.code_pointer + 1,
                   !.jumps = Append(@, 0),
                   !.ret = TRUE,
                   !.writes = s.writes + 1]
    ELSE [LogError(s, "stack") EXCEPT !.ret = FALSE,
                                      !.jumps = Append(@, 0),
                                      !.rejected = Append(@, "Jump")]

add_jump(s) ==
    IF s.panicked THEN s
    ELSE IF ~s.is_memory_full
    THEN [s EXCEPT !.is_memory_full = on_last_byte(s),
                   !.code_arr[s.code_pointer] = Jump(Len(s.jumps)),
                   !.code_pointer = s.code_pointer + 1,
                   !.jumps = Append(@, 0),
                   !.ret = TRUE,
                   !.writes = s.writes + 1]
    ELSE [LogError(s, "stack") EXCEPT !.ret = FALSE,
                                      !.rejected = Append(@, "Jump")]

----------------------------------------------------------------------------
(* store_string: intern a literal on the heap *)

\* the for loop of store_string over string.chars().rev(), here over the
\* characters hi down to lo of a string that is not empty; ret is is_stored,
\* and a failed add_data breaks
\* the loop over string.chars() without the rev()
RECURSIVE StoreChars_Forward(_, _, _, _)
StoreChars_Forward(s, string, lo, hi) ==
    IF ~s.ret THEN s
    ELSE IF lo = hi THEN add_data(s, string[lo])
    ELSE StoreChars_Forward(
             StoreChars_Forward(s, string, lo, (lo + hi) \div 2),
             string, ((lo + hi) \div 2) + 1, hi)

RECURSIVE StoreChars(_, _, _, _)
StoreChars(s, string, lo, hi) ==
    IF ~s.ret THEN s
    ELSE IF lo = hi THEN add_data(s, string[lo])
    ELSE StoreChars(StoreChars(s, string, ((lo + hi) \div 2) + 1, hi),
                    string, lo, (lo + hi) \div 2)

\* the loop runs zero times for the empty string
StoreAllChars(z, string) ==
    IF string = <<>> THEN z ELSE StoreChars(z, string, 1, Len(string))

\* history: one record per call of store_string
NoteStore(before, after, string) ==
    [after EXCEPT !.store_calls = Append(@,
        [ string |-> string,
          addr   |-> IF after.panicked THEN None ELSE after.addr,
          moved  |-> before.heap_pointer # after.heap_pointer
                     \/ before.code_arr # after.code_arr,
          failed |-> Len(after.rejected) > Len(before.rejected),
          cached |-> string \in DOMAIN after.string_history,
          hit    |-> string \in DOMAIN before.string_history,
          h      |-> before.heap_pointer,
          room   |-> IF before.is_memory_full THEN 0
                     ELSE before.heap_pointer - before.code_pointer + 1 ])]

\* if is_stored the address heap_pointer + 1 is cached and returned
StringStored(w, string) ==
    IF w.panicked THEN w
    ELSE IF w.ret
    THEN IF Overflows(w.heap_pointer + 1) /\ build = "debug"
         THEN Panic(Fault(w, "heap_pointer + 1"))
         ELSE [Arith(w, w.heap_pointer + 1, "heap_pointer + 1") EXCEPT
                 !.string_history =
                     MapInsert(@, string, Wrap(w.heap_pointer + 1)),
                 !.addr = Wrap(w.heap_pointer + 1)]
    ELSE [w EXCEPT !.addr = None]

\* the terminating 00, whose result is not looked at
StringEnd(z) == [z EXCEPT !.ret = TRUE]

\* store_string without the lookup in string_history
StoreStringBody_NoLookup(s, string) ==
    StringStored(
        StoreAllChars(StringEnd(add_data(s, 0)), string),
        string)

StoreStringBody(s, string) ==
    IF string \notin DOMAIN s.string_history
    THEN StringStored(
             StoreAllChars(StringEnd(add_data(s, 0)), string),
             string)
    ELSE [s EXCEPT !.addr = s.string_history[string]]

store_string(s, string) ==
    IF s.panicked THEN s
    ELSE NoteStore(s, StoreStringBody(s, string), string)

----------------------------------------------------------------------------
(* backpatch_addresses *)

BackpatchVar(s, i, var_pointer, temp_pointer) ==
    LET sum      == s.code_pointer + (s.code_arr[i].v % MemSize)
        var_addr == Wrap(sum)
        a        == Arith(s, sum, "code_pointer + offset")
    IN  IF Overflows(sum) /\ build = "debug"
        THEN [st |-> Panic(a), vp |-> var_pointer, tp |-> temp_pointer]
        ELSE IF var_addr <= temp_pointer
        THEN LET w == [a EXCEPT !.code_arr[i] = Code(var_addr)]
             IN  IF var_addr >= var_pointer
                 THEN IF Overflows(var_addr + 1) /\ build = "debug"
                      THEN [st |-> Panic(Fault(w, "var_addr + 1")),
                            vp |-> var_pointer, tp |-> temp_pointer]
                      ELSE [st |-> Arith(w, var_addr + 1, "var_addr + 1"),
                            vp |-> Wrap(var_addr + 1), tp |-> temp_pointer]
                 ELSE [st |-> w, vp |-> var_pointer, tp |-> temp_pointer]
        ELSE [st |-> [LogError(a, "stack") EXCEPT !.ret = FALSE],
              vp |-> var_pointer, tp |-> temp_pointer]

\* the Temp arm with the slots counted down from the cell above heap_pointer
BackpatchTemp_FromAboveHeap(s, i, var_pointer, temp_pointer) ==
    LET temp_addr == (s.heap_pointer + 1) - (s.code_arr[i].v % MemSize)
    IN  IF temp_addr >= var_pointer
        THEN [st |-> [s EXCEPT !.code_arr[i] = Code(temp_addr)],
              vp |-> var_pointer,
              tp |-> IF temp_addr <= temp_pointer THEN temp_addr - 1
                     ELSE temp_pointer]
        ELSE [st |-> [LogError(s, "heap") EXCEPT !.ret = FALSE],
              vp |-> var_pointer, tp |-> temp_pointer]

BackpatchTemp(s, i, var_pointer, temp_pointer) ==
    LET diff      == s.heap_pointer - (s.code_arr[i].v % MemSize)
        temp_addr == Wrap(diff)
        a         == Arith(s, diff, "heap_pointer - offset")
    IN  IF Overflows(diff) /\ build = "debug"
        THEN [st |-> Panic(a), vp |-> var_pointer, tp |-> temp_pointer]
        ELSE IF temp_addr >= var_pointer
        THEN LET w == [a EXCEPT !.code_arr[i] = Code(temp_addr)]
             IN  IF temp_addr <= temp_pointer
                 THEN IF Overflows(temp_addr - 1) /\ build = "debug"
                      THEN [st |-> Panic(Fault(w, "temp_addr - 1")),
                            vp |-> var_pointer, tp |-> temp_pointer]
                      ELSE [st |-> Arith(w, temp_addr - 1, "temp_addr - 1"),
                            vp |-> var_pointer, tp |-> Wrap(temp_addr - 1)]
                 ELSE [st |-> w, vp |-> var_pointer, tp |-> temp_pointer]
        ELSE [st |-> [LogError(a, "heap") EXCEPT !.ret = FALSE],
              vp |-> var_pointer, tp |-> temp_pointer]

BackpatchJump(s, i, var_pointer, temp_pointer) ==
    LET jump_index == s.code_arr[i].v
    IN  IF jump_index >= Len(s.jumps)
        THEN [st |-> Panic(Fault(s, "jumps[jump_index]")),
              vp |-> var_pointer, tp |-> temp_pointer]
        ELSE [st |-> [s EXCEPT !.code_arr[i] = Code(s.jumps[jump_index + 1])],
              vp |-> var_pointer, tp |-> temp_pointer]

\* the match on code_arr[i] without its Jump arm
BackpatchCell_NoJumpArm(s, i, var_pointer, temp_pointer) ==
    CASE s.code_arr[i].k = "Var"  -> BackpatchVar(s, i, var_pointer, temp_pointer)
      [] s.code_arr[i].k = "Temp" -> BackpatchTemp(s, i, var_pointer, temp_pointer)
      [] OTHER -> [st |-> s, vp |-> var_pointer, tp |-> temp_pointer]

\* one iteration of the for loop: the match on code_arr[i]
BackpatchCell(s, i, var_pointer, temp_pointer) ==
    CASE s.code_arr[i].k = "Var"  -> BackpatchVar(s, i, var_pointer, temp_pointer)
      [] s.code_arr[i].k = "Temp" -> BackpatchTemp(s, i, var_pointer, temp_pointer)
      [] s.code_arr[i].k = "Jump" -> BackpatchJump(s, i, var_pointer, temp_pointer)
      [] OTHER -> [st |-> s, vp |-> var_pointer, tp |-> temp_pointer]

\* the for loop over the cells lo..hi; it ends early on a return or a panic
RECURSIVE BackpatchRange(_, _, _)
BackpatchRange(r, lo, hi) ==
    IF r.st.panicked \/ ~r.st.ret THEN r
    ELSE IF lo = hi THEN BackpatchCell(r.st, lo, r.vp, r.tp)
    ELSE LET mid == (lo + hi) \div 2
         IN  BackpatchRange(BackpatchRange(r, lo, mid), mid + 1, hi)

\* ret is the value backpatch_addresses returns
backpatch_addresses(s) ==
    IF s.panicked THEN s
    ELSE BackpatchRange(
             [st |-> [s EXCEPT !.emitted = s.code_arr, !.ret = TRUE],
              vp |-> s.code_pointer, tp |-> s.heap_pointer],
             0, MemSize - 1).st

----------------------------------------------------------------------------
(* The AST (SyntaxTree of NonTerminalsAst and Terminal nodes).  A node is a *)
(* record; the children are named instead of being found by position.      *)

Block(stmts) == [tag |-> "Block", stmts |-> stmts]
VarDecl(ty, id) == [tag |-> "VarDecl", ty |-> ty, id |-> id]
Assign(id, value) == [tag |-> "Assign", id |-> id, value |-> value]
PrintStmt(value) == [tag |-> "Print", value |-> value]
IfStmt(cond, body) == [tag |-> "If", cond |-> cond, body |-> body]
WhileStmt(cond, body) == [tag |-> "While", cond |-> cond, body |-> body]
Add(left, right) == [tag |-> "Add", left |-> left, right |-> right]
IsEq(left, right) == [tag |-> "IsEq", left |-> left, right |-> right]
NotEq(left, right) == [tag |-> "NotEq", left |-> left, right |-> right]
Id(name) == [tag |-> "Id", text |-> name]
Digit(val) == [tag |-> "Digit", val |-> val]
Char(string) == [tag |-> "Char", string |-> string]
TrueKw == [tag |-> "True"]
FalseKw == [tag |-> "False"]

IsTerminal(node) == node.tag \in {"Id", "Digit", "Char", "True", "False"}

\* a statement with a Block directly below it: a Block, an if or a while
HasBlock(stmt) == stmt.tag \in {"Block", "If", "While"}

BlockOf(stmt) == IF stmt.tag = "Block" THEN stmt ELSE stmt.body

\* the Block nodes directly below the statements, in source order
ChildBlocks(stmts) ==
    [i \in 1..Len(SelectSeq(stmts, HasBlock)) |->
        BlockOf(SelectSeq(stmts, HasBlock)[i])]

\* number of Block nodes in the subtree of a block
RECURSIVE CountBlocks(_)
RECURSIVE CountBlocksSeq(_, _)
CountBlocks(block) == 1 + CountBlocksSeq(ChildBlocks(block.stmts), 1)
CountBlocksSeq(blocks, i) ==
    IF i > Len(blocks) THEN 0
    ELSE CountBlocks(blocks[i]) + CountBlocksSeq(blocks, i + 1)

----------------------------------------------------------------------------
(* The symbol table the semantic analyser hands over: one scope per Block, *)
(* numbered in pre-order from 0, each with its parent and its symbols.     *)

\* the symbols a block declares, each with the type of its declaration
DeclsOf(block) ==
    LET ds == {i \in 1..Len(block.stmts) : block.stmts[i].tag = "VarDecl"}
    IN  [n \in {block.stmts[i].id : i \in ds} |->
            block.stmts[CHOOSE i \in ds : block.stmts[i].id = n].ty]

RECURSIVE ScopesOf(_, _, _)
RECURSIVE ScopesOfSeq(_, _, _, _)
ScopesOf(block, parent, id) ==
    <<[parent |-> parent, syms |-> DeclsOf(block)]>>
        \o ScopesOfSeq(ChildBlocks(block.stmts), 1, id, id + 1)
ScopesOfSeq(blocks, i, parent, id) ==
    IF i > Len(blocks) THEN <<>>
    ELSE LET here == ScopesOf(blocks[i], parent, id)
         IN  here \o ScopesOfSeq(blocks, i + 1, parent, id + Len(here))

SymbolTableOf(root) == ScopesOf(root, None, 0)

NoEntry == [scope |-> None, symbol_type |-> "none"]

\* SymbolTable::get_symbol: the entry of name visible from scope cur
RECURSIVE get_symbol(_, _, _)
get_symbol(scopes, cur, name) ==
    IF cur = None \/ cur >= Len(scopes) THEN NoEntry
    ELSE IF name \in DOMAIN scopes[cur + 1].syms
    THEN [scope |-> cur, symbol_type |-> scopes[cur + 1].syms[name]]
    ELSE get_symbol(scopes, scopes[cur + 1].parent, name)

set_cur_scope(s, id) ==
    IF s.panicked THEN s ELSE [s EXCEPT !.cur_scope = id]

end_cur_scope(s) ==
    IF s.panicked THEN s
    ELSE IF s.cur_scope = None \/ s.cur_scope >= Len(s.scopes) THEN s
    ELSE [s EXCEPT !.cur_scope = s.scopes[s.cur_scope + 1].parent]

\* static_table.get(&(name, get_symbol(name).unwrap().scope)).unwrap():
\* the offset, or None when one of the two unwraps panics
StaticOffset(s, name) ==
    LET e == get_symbol(s.scopes, s.cur_scope, name)
    IN  IF e = NoEntry THEN None
        ELSE IF <<name, e.scope>> \in DOMAIN s.static_table
        THEN s.static_table[<<name, e.scope>>]
        ELSE None

----------------------------------------------------------------------------
(* Lowering of the statements.  Emit runs a sequence of add_code, add_var, *)
(* add_temp and add_jump calls and updates of temp_index in order.         *)

C(b) == [op |-> "code", arg |-> b]
V(o) == [op |-> "var", arg |-> o]
T(t) == [op |-> "temp", arg |-> t]
J == [op |-> "jump", arg |-> 0]
\* self.add_temp(self.temp_index) and self.add_temp(self.temp_index - 1)
TCur == [op |-> "temp_cur", arg |-> 0]
TLast == [op |-> "temp_last", arg |-> 0]
\* self.temp_index += 1 and self.temp_index -= 1
IncT == [op |-> "inc", arg |-> 0]
DecT == [op |-> "dec", arg |-> 0]

SetTempIndex(s, t) ==
    IF s.panicked THEN s
    ELSE [s EXCEPT !.temp_index = t,
                   !.temp_low = IF t < @ THEN t ELSE @]

\* history: one record per add_temp call of the lowering; stash tells the
\* store of a new temporary from a reference to the last one
NoteTemp(s, temp, stash) ==
    IF s.panicked THEN s
    ELSE [s EXCEPT !.temp_refs = @ \cup
             {[ k |-> temp, depth |-> s.temp_index, stash |-> stash,
                at |-> s.code_pointer, full |-> s.is_memory_full ]}]

\* history: temp_index before and after a statement or an expression
NoteBalance(before, after, tag, first) ==
    IF after.panicked THEN after
    ELSE [after EXCEPT !.balance_log = @ \cup
             {[ tag |-> tag, first |-> first,
                entry |-> before.temp_index, exit |-> after.temp_index ]}]

EmitOne(s, call) ==
    CASE call.op = "code" -> add_code(s, call.arg)
      [] call.op = "var"  -> add_var(s, call.arg)
      [] call.op = "temp" -> add_temp(s, call.arg)
      [] call.op = "jump" -> add_jump(s)
      [] call.op = "temp_cur"  ->
            add_temp(NoteTemp(s, s.temp_index, TRUE), s.temp_index)
      [] call.op = "temp_last" ->
            add_temp(NoteTemp(s, s.temp_index - 1, FALSE), s.temp_index - 1)
      [] call.op = "inc" -> SetTempIndex(s, s.temp_index + 1)
      [] call.op = "dec" -> SetTempIndex(s, s.temp_index - 1)

RECURSIVE Emit(_, _)
Emit(s, calls) ==
    IF s.panicked \/ calls = <<>> THEN s
    ELSE Emit(EmitOne(s, Head(calls)), Tail(calls))

\* self.jumps[index] = offset; an index past the end of the vector panics
SetJump(s, index, offset) ==
    IF s.panicked THEN s
    ELSE IF index >= Len(s.jumps) THEN Panic(Fault(s, "jumps[index]"))
    ELSE [s EXCEPT !.jumps[index + 1] = offset]

\* 8D Tn 00 with temp_index += 1 between the temp and the 00
SaveAcc == <<C(141), TCur, IncT, C(0)>>

\* the codes of pre, add_var(off), the codes of post; off is None when an
\* unwrap on the way to the offset panics
EmitVarAt(s, pre, off, post) ==
    IF off = None THEN Panic(s) ELSE Emit(s, pre \o <<V(off)>> \o post)

EmitVar(s, pre, name, post) == EmitVarAt(s, pre, StaticOffset(s, name), post)

\* if string_addr.is_some() { add_code(op); add_code(string_addr.unwrap()) }
EmitStringAddr(a, op) ==
    IF a.panicked \/ a.addr = None THEN a ELSE Emit(a, <<C(op), C(a.addr)>>)

\* the initialisation without the high byte of the address
VarDeclInit_NoHighByte(w, symbol_table_entry, static_offset) ==
    IF symbol_table_entry = NoEntry THEN Panic(w)
    ELSE IF symbol_table_entry.symbol_type \in {"Int", "Boolean"}
    THEN Emit(w, <<C(169), C(0), C(141), V(static_offset)>>)
    ELSE w

\* the match on the type of the declared variable
VarDeclInit(w, symbol_table_entry, static_offset) ==
    IF symbol_table_entry = NoEntry THEN Panic(w)
    ELSE IF symbol_table_entry.symbol_type \in {"Int", "Boolean"}
    THEN Emit(w, <<C(169), C(0), C(141), V(static_offset), C(0)>>)
    ELSE w

\* history: one record per static_table.insert
NoteDecl(s, key, static_offset) ==
    [s EXCEPT !.decl_log = Append(@, [key |-> key, offset |-> static_offset])]

\* the insert with the offset taken after the entry is counted
VarDeclInsert_CountsItself(s, key, static_offset) ==
    NoteDecl([s EXCEPT !.static_table = MapInsert(@, key, static_offset + 1)],
             key, static_offset + 1)

\* self.static_table.insert((text, cur_scope), static_offset)
VarDeclInsert(s, key, static_offset) ==
    NoteDecl([s EXCEPT !.static_table = MapInsert(@, key, static_offset)],
             key, static_offset)

code_gen_var_decl(s, node) ==
    IF s.panicked THEN s
    ELSE IF s.cur_scope = None THEN Panic(s)
    ELSE VarDeclInit(
             VarDeclInsert(s, <<node.id, s.cur_scope>>,
                           Cardinality(DOMAIN s.static_table)),
             get_symbol(s.scopes, s.cur_scope, node.id),
             Cardinality(DOMAIN s.static_table))

get_z_flag_value(s) ==
    Emit(s, <<C(169), C(0), C(208), C(2), C(169), C(1)>>)

RECURSIVE code_gen_add(_, _, _)
\* match right_child when it is a terminal
AddRightTerminal(s, right_child) ==
    CASE right_child.tag = "Digit" -> Emit(s, <<C(169), C(right_child.val)>>)
      [] right_child.tag = "Id" ->
            EmitVar(s, <<C(173)>>, right_child.text, <<C(0)>>)
      [] OTHER -> s

\* match right_child
AddRight(s, right_child) ==
    IF IsTerminal(right_child)
    THEN Emit(AddRightTerminal(s, right_child), SaveAcc)
    ELSE code_gen_add(s, right_child, FALSE)

\* the outermost add without self.temp_index -= 1
AddLeftTail_KeepsTemp(first) ==
    IF ~first THEN <<C(141), TLast, C(0)>> ELSE <<>>

\* if !first store the sum back in the temp, else free the temp
AddLeftTail(first) ==
    IF ~first THEN <<C(141), TLast, C(0)>> ELSE <<DecT>>

\* match left_child
AddLeft(r, left_child, first) ==
    IF left_child.tag = "Digit"
    THEN Emit(r, <<C(169), C(left_child.val), C(109), TLast, C(0)>>
                 \o AddLeftTail(first))
    ELSE r

code_gen_add(s, node, first) ==
    NoteBalance(s, AddLeft(AddRight(s, node.right), node.left, first),
                node.tag, first)

\* the operand of a comparison when it is a terminal: load is the opcode
\* that loads an address (AD / AE), imm the one that loads a constant
CompareTerminal(s, child, load, imm) ==
    CASE child.tag = "Id" -> EmitVar(s, <<C(load)>>, child.text, <<C(0)>>)
      [] child.tag = "Digit" -> Emit(s, <<C(imm), C(child.val)>>)
      [] child.tag = "Char" ->
            EmitStringAddr(store_string(s, child.string), imm)
      [] child.tag = "True"  -> Emit(s, <<C(imm), C(1)>>)
      [] child.tag = "False" -> Emit(s, <<C(imm), C(0)>>)

RECURSIVE code_gen_compare(_, _, _)
\* the operand of a comparison when it is a nonterminal
CompareNonTerminal(s, child) ==
    CASE child.tag = "Add"   -> code_gen_add(s, child, TRUE)
      [] child.tag = "IsEq"  -> get_z_flag_value(code_gen_compare(s, child, TRUE))
      [] child.tag = "NotEq" -> get_z_flag_value(code_gen_compare(s, child, FALSE))

\* match left_child: the left hand side goes to the accumulator
CompareLeft(s, left_child) ==
    IF IsTerminal(left_child)
    THEN CompareTerminal(s, left_child, 173, 169)
    ELSE CompareNonTerminal(s, left_child)

\* the right hand side saved over the temporary of the left hand side
CompareRight_ReusesTemp(s, right_child) ==
    IF IsTerminal(right_child)
    THEN CompareTerminal(s, right_child, 174, 162)
    ELSE Emit(CompareNonTerminal(s, right_child),
              <<C(141), TLast, IncT, C(0), C(174), TLast, C(0), DecT>>)

\* match right_child: the right hand side goes to the X register
CompareRight(s, right_child) ==
    IF IsTerminal(right_child)
    THEN CompareTerminal(s, right_child, 174, 162)
    ELSE Emit(CompareNonTerminal(s, right_child),
              SaveAcc \o <<C(174), TLast, C(0), DecT>>)

\* EC Tn 00 on the saved left hand side, which frees its temp
CompareX == <<C(236), TLast, C(0), DecT>>

\* the flip with A2 00 in the place of A2 01
FlipZ_ClearsXTwice(is_eq) ==
    IF ~is_eq
    THEN <<C(162), C(0), C(208), C(2), C(162), C(0), C(236), C(255), C(0)>>
    ELSE <<>>

\* if !is_eq the Z flag is flipped
FlipZ(is_eq) ==
    IF ~is_eq
    THEN <<C(162), C(0), C(208), C(2), C(162), C(1), C(236), C(255), C(0)>>
    ELSE <<>>

\* history: one record per comparison; l is the state after the left hand
\* side was saved in Temp(k), r the state after the right hand side, e the
\* state at the end; cut tells that a write of the comparison was refused
NoteCompare(l, r, e) ==
    IF e.panicked THEN e
    ELSE [e EXCEPT !.compare_log = @ \cup
             {[ k   |-> l.temp_index - 1,
                lo  |-> l.code_pointer,
                hi  |-> r.code_pointer,
                cut |-> e.log # <<>> ]}]

\* EC Tn 00 and the flip of the Z flag after the right hand side
CompareClose(l, r, is_eq) ==
    NoteCompare(l, r, Emit(r, CompareX \o FlipZ(is_eq)))

\* the right hand side, lowered while the left hand side is in its temp
CompareSpilled(l, right_child, is_eq) ==
    CompareClose(l, CompareRight(l, right_child), is_eq)

code_gen_compare(s, node, is_eq) ==
    NoteBalance(s,
        CompareSpilled(Emit(CompareLeft(s, node.left), SaveAcc),
                       node.right, is_eq),
        node.tag, TRUE)

----------------------------------------------------------------------------
(* Assignment and print *)

\* match value_node: the value goes to the accumulator
AssignValue(s, value_node) ==
    CASE value_node.tag = "Id" ->
            EmitVar(s, <<C(173)>>, value_node.text, <<C(0)>>)
      [] value_node.tag = "Digit" -> Emit(s, <<C(169), C(value_node.val)>>)
      [] value_node.tag = "Char" ->
            EmitStringAddr(store_string(s, value_node.string), 169)
      [] value_node.tag = "True"  -> Emit(s, <<C(169), C(1)>>)
      [] value_node.tag = "False" -> Emit(s, <<C(169), C(0)>>)
      [] value_node.tag = "Add"   -> code_gen_add(s, value_node, TRUE)
      [] value_node.tag = "IsEq"  ->
            get_z_flag_value(code_gen_compare(s, value_node, TRUE))
      [] value_node.tag = "NotEq" ->
            get_z_flag_value(code_gen_compare(s, value_node, FALSE))

\* match id_node: 8D, the address of the variable, 00
AssignStore(v, name) ==
    IF v.panicked THEN v ELSE EmitVar(v, <<C(141)>>, name, <<C(0)>>)

code_gen_assignment(s, node) ==
    AssignStore(AssignValue(s, node.value), node.id)

\* the tail shared by the three nonterminal arms of code_gen_print
PrintFromAcc(s) ==
    Emit(s, SaveAcc \o <<C(172), TLast, DecT, C(0), C(162), C(1)>>)

\* the Identifier arm of code_gen_print
PrintId(s, name, print_id) ==
    IF print_id = NoEntry THEN Panic(s)
    ELSE EmitVar(s, <<C(172)>>, name,
                 <<C(0), C(162),
                   C(IF print_id.symbol_type \in {"Int", "Boolean"}
                     THEN 1 ELSE 2)>>)

\* match child
PrintValue(s, child) ==
    CASE child.tag = "Id" ->
            PrintId(s, child.text,
                    get_symbol(s.scopes, s.cur_scope, child.text))
      [] child.tag = "Digit" ->
            Emit(s, <<C(160), C(child.val), C(162), C(1)>>)
      [] child.tag = "Char" ->
            Emit(EmitStringAddr(store_string(s, child.string), 160),
                 <<C(162), C(2)>>)
      [] child.tag = "True"  -> Emit(s, <<C(160), C(1), C(162), C(1)>>)
      [] child.tag = "False" -> Emit(s, <<C(160), C(0), C(162), C(1)>>)
      [] child.tag = "Add"   -> PrintFromAcc(code_gen_add(s, child, TRUE))
      [] child.tag = "IsEq"  ->
            PrintFromAcc(get_z_flag_value(code_gen_compare(s, child, TRUE)))
      [] child.tag = "NotEq" ->
            PrintFromAcc(get_z_flag_value(code_gen_compare(s, child, FALSE)))

code_gen_print(s, node) == add_code(PrintValue(s, node.value), 255)

----------------------------------------------------------------------------
(* Blocks, if and while *)

\* lines 146-154 of code_gen_block: number the block, enter its scope
EnterBlock(s) ==
    IF s.panicked THEN s
    ELSE LET scope == IF s.max_scope = NoScope THEN 0 ELSE s.max_scope + 1
         IN  [set_cur_scope(s, scope) EXCEPT
                 !.max_scope = scope,
                 !.scope_calls = Append(@, [pre |-> s.pre, scope |-> scope]),
                 !.pre = s.pre + 1]

\* history: a literal false condition skips the Blocks of the body
SkipBlocks(s, body) == [s EXCEPT !.pre = s.pre + CountBlocks(body)]

RECURSIVE code_gen_block(_, _)
RECURSIVE code_gen_statements(_, _, _)
RECURSIVE code_gen_if(_, _)
RECURSIVE code_gen_while(_, _)

\* what an if or a while may emit into
Frame(s) ==
    [ code_arr       |-> s.code_arr,
      code_pointer   |-> s.code_pointer,
      heap_pointer   |-> s.heap_pointer,
      static_table   |-> s.static_table,
      jumps          |-> s.jumps,
      string_history |-> s.string_history ]

\* history: one record per if or while with the literal false
NoteDead(before, after, node) ==
    [after EXCEPT !.dead_log = Append(@,
        [ tag  |-> node.tag,
          body |-> Len(node.body.stmts),
          same |-> Frame(before) = Frame(after) ])]

\* the False arm without its return: the body is lowered
FalseArm_FallsThrough(s, body) == code_gen_block(s, body)

\* Keywords::False => return: the Blocks of the body are not visited
FalseArm(s, body) == SkipBlocks(s, body)

\* one arm of the match on a child of a Block
StatementArm(s, child) ==
    CASE child.tag = "Block"   -> code_gen_block(s, child)
      [] child.tag = "VarDecl" -> code_gen_var_decl(s, child)
      [] child.tag = "Assign"  -> code_gen_assignment(s, child)
      [] child.tag = "Print"   -> code_gen_print(s, child)
      [] child.tag = "If"      -> code_gen_if(s, child)
      [] child.tag = "While"   -> code_gen_while(s, child)

code_gen_statement(s, child) ==
    NoteBalance(s, StatementArm(s, child), child.tag, TRUE)

code_gen_statements(s, stmts, i) ==
    IF i > Len(stmts) \/ s.panicked THEN s
    ELSE code_gen_statements(code_gen_statement(s, stmts[i]), stmts, i + 1)

code_gen_block(s, block) ==
    end_cur_scope(code_gen_statements(EnterBlock(s), block.stmts, 1))

\* self.code_pointer - start_addr, taking the branch over the unpatched form
branch_offset_OffByOne(s, start_addr) == s.code_pointer - start_addr + 1

\* let branch_offset: u8 = self.code_pointer - start_addr
branch_offset(s, start_addr) == s.code_pointer - start_addr

\* the one's complement without the + 1
unconditional_branch_offset_NoPlusOne(s, loop_start_addr) ==
    255 - (s.code_pointer - loop_start_addr)

\* !(self.code_pointer - loop_start_addr) + 1, before it is cut to 8 bits
unconditional_branch_offset(s, loop_start_addr) ==
    (255 - (s.code_pointer - loop_start_addr)) + 1

\* the comparison of an if or a while followed by D0 and the placeholder
CondAndBranch(s, cond) ==
    Emit(code_gen_compare(s, cond, cond.tag = "IsEq"), <<C(208), J>>)

\* if start_addr != 0x00 { self.jumps[jump_index] = branch_offset }
PatchBranch(b, jump_index, start_addr) ==
    IF start_addr # 0
    THEN SetJump(b, jump_index, branch_offset(b, start_addr))
    ELSE b

\* history: one record per if that was lowered; s is the state before the
\* if, c after its condition, e at its end
NoteIf(s, c, e, start_addr) ==
    IF e.panicked THEN e
    ELSE [e EXCEPT !.if_log = Append(@,
             [ jump_index |-> Len(s.jumps),
               compared   |-> start_addr # 0,
               start_addr |-> start_addr,
               end_addr   |-> e.code_pointer,
               jumps_made |-> Len(c.jumps) - Len(s.jumps),
               overflowed |-> Len(e.log) > 0 ])]

\* the guarded block and the backpatch of the branch over it
IfBody(s, c, body, start_addr) ==
    NoteIf(s, c,
           PatchBranch(code_gen_block(c, body), Len(s.jumps), start_addr),
           start_addr)

\* start_addr = self.code_pointer, taken after the condition
IfCompared(s, c, body) == IfBody(s, c, body, c.code_pointer)

code_gen_if(s, node) ==
    IF s.panicked THEN s
    ELSE IF node.cond.tag = "False"
    THEN NoteDead(s, FalseArm(s, node.body), node)
    ELSE IF node.cond.tag \in {"IsEq", "NotEq"}
    THEN IfCompared(s, CondAndBranch(s, node.cond), node.body)
    ELSE IfBody(s, s, node.body, 0)

\* self.jumps[unconditional_jump_index] = !(...) + 1
SetBackBranch(e, unconditional_jump_index, negated) ==
    IF e.panicked THEN e
    ELSE IF Overflows(negated) /\ build = "debug"
    THEN Panic(Fault(e, "!(code_pointer - loop_start_addr) + 1"))
    ELSE SetJump(Arith(e, negated, "!(code_pointer - loop_start_addr) + 1"),
                 unconditional_jump_index, Wrap(negated))

\* history: one record per while that was lowered
NoteWhile(s, u, unconditional_jump_index, body_start_addr) ==
    IF u.panicked THEN u
    ELSE [u EXCEPT !.while_log = Append(@,
             [ body_jump_index |-> Len(s.jumps),
               unconditional_jump_index |-> unconditional_jump_index,
               compared        |-> body_start_addr # 0,
               loop_start_addr |-> s.code_pointer,
               body_start_addr |-> body_start_addr,
               end_addr        |-> u.code_pointer,
               overflowed      |-> Len(u.log) > 0 ])]

\* the exit displacement measured up to the tail, not past it
WhilePatch_ExitAtTail(s, t, unconditional_jump_index, body_start_addr) ==
    NoteWhile(s,
        SetBackBranch(
            IF body_start_addr # 0
            THEN SetJump(t, Len(s.jumps),
                         branch_offset(t, body_start_addr) - 7)
            ELSE t,
            unconditional_jump_index,
            unconditional_branch_offset(t, s.code_pointer)),
        unconditional_jump_index, body_start_addr)

\* the two backpatches after the tail; t is the state after the tail
WhilePatch(s, t, unconditional_jump_index, body_start_addr) ==
    NoteWhile(s,
        SetBackBranch(
            PatchBranch(t, Len(s.jumps), body_start_addr),
            unconditional_jump_index,
            unconditional_branch_offset(
                PatchBranch(t, Len(s.jumps), body_start_addr),
                s.code_pointer)),
        unconditional_jump_index, body_start_addr)

\* the tail A2 01 EC FF 00 D0 and its placeholder; b is the state after the
\* body, where unconditional_jump_index = self.jumps.len() is taken
WhileTail(s, b, body_start_addr) ==
    WhilePatch(s,
        Emit(b, <<C(162), C(1), C(236), C(255), C(0), C(208), J>>),
        Len(b.jumps), body_start_addr)

WhileBody(s, c, body, body_start_addr) ==
    WhileTail(s, code_gen_block(c, body), body_start_addr)

\* body_start_addr = self.code_pointer, taken after the condition
WhileCompared(s, c, body) == WhileBody(s, c, body, c.code_pointer)

code_gen_while(s, node) ==
    IF s.panicked THEN s
    ELSE IF node.cond.tag = "False"
    THEN NoteDead(s, FalseArm(s, node.body), node)
    ELSE IF node.cond.tag \in {"IsEq", "NotEq"}
    THEN WhileCompared(s, CondAndBranch(s, node.cond), node.body)
    ELSE WhileBody(s, s, node.body, 0)

----------------------------------------------------------------------------
(* display_code: the Debug rendering of the image, one token per cell *)

HexDigits == <<"0", "1", "2", "3", "4", "5", "6", "7",
               "8", "9", "A", "B", "C", "D", "E", "F">>

\* format!("{:02X}", byte)
Hex02(byte) == <<HexDigits[(byte \div 16) + 1], HexDigits[(byte % 16) + 1]>>

\* format!("{}", n)
RECURSIVE Decimal(_)
Decimal(n) ==
    IF n < 10 THEN <<HexDigits[n + 1]>>
    ELSE Decimal(n \div 10) \o <<HexDigits[(n % 10) + 1]>>

\* impl fmt::Debug for CodeGenBytes
DebugFmt(cell) ==
    CASE cell.k = "Code"  -> Hex02(cell.v)
      [] cell.k = "Var"   -> <<"V">> \o Decimal(cell.v)
      [] cell.k = "Temp"  -> <<"T">> \o Decimal(cell.v)
      [] cell.k = "Empty" -> <<"0", "0">>
      [] cell.k = "Data"  -> Hex02(cell.v)
      [] cell.k = "Jump"  -> <<"J">> \o Decimal(cell.v)

display_code(s, number) ==
    [ program_number |-> number,
      html |-> [i \in 0..(MemSize - 1) |-> DebugFmt(s.code_arr[i])] ]

----------------------------------------------------------------------------
(* generate_code *)

NoAst == [tag |-> "None"]

\* the fields of the bookkeeping that generate_code starts afresh
ResetHistory(s, root) ==
    [s EXCEPT !.scopes      = SymbolTableOf(root),
              !.cur_scope   = None,
              !.ret         = TRUE,
              !.addr        = None,
              !.log         = <<>>,
              !.pre         = 0,
              !.scope_calls = <<>>,
              !.store_calls = <<>>,
              !.if_log      = <<>>,
              !.while_log   = <<>>,
              !.emitted     = <<>>,
              !.writes      = 0,
              !.rejected    = <<>>,
              !.dead_log    = <<>>,
              !.temp_low    = 0,
              !.temp_refs   = {},
              !.balance_log = {},
              !.decl_log    = <<>>,
              !.faults      = {},
              !.compare_log = {}]

\* the reset with the heap starting at 0xFF
ResetForProgram_HeapAtFF(s, root) ==
    [ResetHistory(s, root) EXCEPT
              !.max_scope      = NoScope,
              !.code_arr       = [i \in 0..(MemSize - 1) |-> Empty],
              !.code_pointer   = 0,
              !.heap_pointer   = 255,
              !.static_table   = EmptyMap,
              !.temp_index     = 0,
              !.string_history = EmptyMap,
              !.jumps          = <<>>,
              !.is_memory_full = FALSE]

\* the reset without string_history.clear()
ResetForProgram_KeepStrings(s, root) ==
    [ResetHistory(s, root) EXCEPT
              !.max_scope      = NoScope,
              !.code_arr       = [i \in 0..(MemSize - 1) |-> Empty],
              !.code_pointer   = 0,
              !.heap_pointer   = 254,
              !.static_table   = EmptyMap,
              !.temp_index     = 0,
              !.jumps          = <<>>,
              !.is_memory_full = FALSE]

\* lines 113-127, and the symbol table of the program that is handed over
ResetForProgram(s, root) ==
    [ResetHistory(s, root) EXCEPT
              !.max_scope      = NoScope,
              !.code_arr       = [i \in 0..(MemSize - 1) |-> Empty],
              !.code_pointer   = 0,
              !.heap_pointer   = 254,
              !.static_table   = EmptyMap,
              !.temp_index     = 0,
              !.string_history = EmptyMap,
              !.jumps          = <<>>,
              !.is_memory_full = FALSE]

----------------------------------------------------------------------------
(* The input programs *)

\* a literal of n letters a
Str(n) == [i \in 1..n |-> 97]

\* the literal "hi"
Hi == <<104, 105>>

Rep(stmt, n) == [i \in 1..n |-> stmt]

\* { }   { int a }   { print("hi") print("hi") }   { if false { int a } }
\* { while (1 != 2) { } }
Scenarios ==
    { Block(<<>>),
      Block(<<VarDecl("Int", "a")>>),
      Block(<<PrintStmt(Char(Hi)), PrintStmt(Char(Hi))>>),
      Block(<<IfStmt(FalseKw, Block(<<VarDecl("Int", "a")>>))>>),
      Block(<<WhileStmt(NotEq(Digit(1), Digit(2)), Block(<<>>))>>) }

\* programs whose blocks follow a skipped body, and nested control flow
Nested ==
    { Block(<<IfStmt(FalseKw, Block(<<Block(<<>>)>>)), Block(<<>>),
              WhileStmt(TrueKw, Block(<<>>))>>),
      Block(<<VarDecl("Int", "a"),
              WhileStmt(NotEq(Id("a"), Digit(3)),
                  Block(<<Assign("a", Add(Digit(1), Id("a"))),
                          IfStmt(IsEq(Id("a"), Digit(2)),
                                 Block(<<PrintStmt(Char(Hi))>>))>>)),
              WhileStmt(TrueKw, Block(<<PrintStmt(Id("a"))>>))>>),
      Block(<<IfStmt(TrueKw, Block(<<VarDecl("Boolean", "b"),
                                     Assign("b", TrueKw)>>))>>),
      Block(<<VarDecl("Int", "a"),
              WhileStmt(FalseKw,
                  Block(<<VarDecl("String", "s"), Assign("s", Char(Hi)),
                          WhileStmt(NotEq(Id("a"), Digit(1)),
                                    Block(<<PrintStmt(Id("s"))>>))>>)),
              IfStmt(TrueKw,
                  Block(<<IfStmt(FalseKw,
                                 Block(<<PrintStmt(Char(Hi))>>))>>)),
              PrintStmt(Id("a"))>>),
      \* an Add chain of depth three and comparisons nested on both sides
      Block(<<VarDecl("Int", "a"), VarDecl("Boolean", "b"),
              Assign("a", Add(Digit(1),
                              Add(Digit(2), Add(Digit(3), Id("a"))))),
              Assign("b", NotEq(IsEq(Id("a"), Digit(1)),
                                IsEq(Add(Digit(2), Id("a")),
                                     NotEq(Id("b"), TrueKw)))),
              IfStmt(IsEq(Id("b"), NotEq(Add(Digit(1), Digit(2)), Digit(3))),
                     Block(<<PrintStmt(NotEq(TrueKw,
                                             IsEq(Id("a"), Digit(1))))>>))>>)
    }

\* programs that fill the image: long literals, then code
Filling ==
    { Block(<<PrintStmt(Char(Str(n)))>>) : n \in (LongLen - 2)..LongLen }
    \cup
    { Block(<<PrintStmt(Char(Str(LongLen - 2))),
              WhileStmt(TrueKw, Block(<<>>))>>),
      Block(<<VarDecl("Int", "a"),
              IfStmt(IsEq(Id("a"), Digit(1)),
                     Block(<<PrintStmt(Char(Str(LongLen - 10)))>>))>>),
      Block(<<PrintStmt(Char(Str(LongLen - 2))), PrintStmt(Char(<<>>)),
              PrintStmt(Char(<<>>))>>),
      Block(<<PrintStmt(Char(Str(LongLen - 2))),
              IfStmt(IsEq(Digit(1), Digit(1)), Block(<<>>))>>) }

\* programs whose variable and temp slots meet at backpatch time
Colliding ==
    { Block(<<VarDecl("Int", "a"), PrintStmt(Char(Str(243)))>>),
      Block(<<VarDecl("Int", "a"), PrintStmt(Add(Digit(1), Digit(2))),
              PrintStmt(Char(Str(223)))>>),
      Block(<<VarDecl("String", "s"), PrintStmt(Add(Digit(1), Digit(2))),
              PrintStmt(Id("s")), PrintStmt(Char(Str(222)))>>),
      Block(<<VarDecl("String", "a"), VarDecl("String", "b"),
              VarDecl("String", "c"), VarDecl("Int", "z")>>
            \o Rep(PrintStmt(Digit(1)), 48)
            \o <<WhileStmt(TrueKw, Block(<<>>))>>) }

Pool ==
    << Assign("a", Add(Digit(1), Add(Digit(2), Id("a")))),
       Assign("s", Char(Hi)),
       PrintStmt(Id("s")),
       PrintStmt(Char(Hi)),
       PrintStmt(IsEq(Id("a"), Digit(1))),
       IfStmt(NotEq(Id("a"), Digit(2)), Block(<<PrintStmt(Id("a"))>>)),
       WhileStmt(IsEq(IsEq(Add(Digit(1), Id("a")), Digit(3)), TrueKw),
                 Block(<<Assign("a", Digit(2))>>)),
       IfStmt(FalseKw, Block(<<Block(<<>>)>>)),
       Block(<<VarDecl("Int", "b"), Assign("b", Id("a"))>>),
       PrintStmt(Char(Str(LongLen - 20))) >>

\* { int a  string s  ... } followed by up to PoolLen statements of the pool
Generated ==
    { Block(<<VarDecl("Int", "a"), VarDecl("String", "s")>>
            \o [i \in 1..Len(f) |-> Pool[f[i]]]) :
        f \in UNION {[1..n -> 1..Len(Pool)] : n \in 1..PoolLen} }

Programs == Scenarios \cup Nested \cup Filling \cup Colliding \cup Generated

\* programs compiled again after another program on the same CodeGenerator
Repeated ==
    { Block(<<VarDecl("Int", "a")>>),
      Block(<<PrintStmt(Char(Hi)), PrintStmt(Char(Hi))>>),
      Block(<<VarDecl("Int", "a"),
              IfStmt(IsEq(Id("a"), Digit(1)),
                     Block(<<PrintStmt(Char(Str(LongLen - 10)))>>))>>),
      Block(<<VarDecl("Int", "a"), PrintStmt(Add(Digit(1), Digit(2))),
              PrintStmt(Char(Str(223)))>>),
      Block(<<PrintStmt(Char(Str(LongLen - 1)))>>) }

\* a program whose source does not lex, and one whose tokens do not parse
LexFails == [tag |-> "LexError"]
ParseFails == [tag |-> "ParseError"]

Failing == {LexFails, ParseFails}

Streams ==
    { <<p>> : p \in Programs }
    \cup { <<p, q, p>> : p \in Repeated, q \in Repeated }
    \cup { <<p, f, p>> : p \in Repeated, f \in Failing }
    \cup { <<f, g, p, f>> : p \in Repeated, f \in Failing, g \in Failing }

----------------------------------------------------------------------------
(* The target machine: registers A and X, the zero flag Z and the program  *)
(* counter.  It runs one of the two sequences the comparisons end with,    *)
(* emitted at the start of an image.                                       *)

\* the machine when no sequence is run
VmOff == [seq |-> "off", pc |-> 0, A |-> 0, X |-> 0, Z |-> 0, z0 |-> 0,
          halted |-> TRUE]

Fresh == ResetForProgram(NewCodeGenerator, Block(<<>>))

\* the image that holds the sequence: the flip of the Z flag that
\* code_gen_compare emits for NotEq, or the bytes of get_z_flag_value
TailImage(seq) ==
    IF seq = "flip" THEN Emit(Fresh, FlipZ(FALSE)).code_arr
    ELSE get_z_flag_value(Fresh).code_arr

\* the byte of a cell of the image: a cell that was not written is 00
Byte(cell) == IF cell.k \in {"Code", "Data"} THEN cell.v ELSE 0

Mem(seq, a) == Byte(TailImage(seq)[a % MemSize])

Fetch == Mem(vm.seq, vm.pc)

Operand == Mem(vm.seq, vm.pc + 1)

Frozen == UNCHANGED <<build, pc, stream, ast, next_stmt, program_number, cg,
                      panes, stages>>

VmInit ==
    /\ build \in {"debug", "release"}
    /\ stream = <<>>
    /\ pc = "vm"
    /\ ast = NoAst
    /\ next_stmt = 1
    /\ program_number = 0
    /\ cg = Fresh
    /\ panes = <<>>
    /\ stages = <<>>
    /\ \E seq \in {"flip", "materialise"}, a \in 0..MaxReg, x \in 0..MaxReg,
          z \in {0, 1} :
          vm = [seq |-> seq, pc |-> 0, A |-> a, X |-> x, Z |-> z, z0 |-> z,
                halted |-> FALSE]

\* A9 kk: load A with the constant kk
VmLoadA ==
    /\ ~vm.halted /\ Fetch = 169
    /\ vm' = [vm EXCEPT !.A = Operand, !.pc = vm.pc + 2]
    /\ Frozen

\* A2 kk: load X with the constant kk
VmLoadX ==
    /\ ~vm.halted /\ Fetch = 162
    /\ vm' = [vm EXCEPT !.X = Operand, !.pc = vm.pc + 2]
    /\ Frozen

\* D0 nn: branch nn bytes past the instruction if Z = 0
VmBranch ==
    /\ ~vm.halted /\ Fetch = 208
    /\ vm' = [vm EXCEPT !.pc = IF vm.Z = 0
                                THEN (vm.pc + 2 + Operand) % MemSize
                                ELSE vm.pc + 2]
    /\ Frozen

\* EC aa 00: compare X to the byte at aa, which sets Z
VmCompareX ==
    /\ ~vm.halted /\ Fetch = 236
    /\ vm' = [vm EXCEPT !.Z = IF vm.X = Mem(vm.seq, Operand) THEN 1 ELSE 0,
                        !.pc = vm.pc + 3]
    /\ Frozen

\* 00: halt
VmHalt ==
    /\ ~vm.halted /\ Fetch = 0
    /\ vm' = [vm EXCEPT !.halted = TRUE]
    /\ Frozen

VmNext ==
    \/ VmLoadA
    \/ VmLoadX
    \/ VmBranch
    \/ VmCompareX
    \/ VmHalt

VmSpec == VmInit /\ [][VmNext]_vars

----------------------------------------------------------------------------
(* The compile of a stream of programs on one CodeGenerator *)

Init ==
    /\ build \in {"debug", "release"}
    /\ stream \in Streams
    /\ pc = "idle"
    /\ ast = NoAst
    /\ next_stmt = 1
    /\ program_number = 0
    /\ cg = NewCodeGenerator
    /\ panes = <<>>
    /\ stages = <<>>
    /\ vm = VmOff

Stage(name, number) == [stage |-> name, program |-> number]

\* if lex_res.is_err() { continue } without the continue
AfterLex_NoContinue(lex_res) == "parse"

\* if lex_res.is_err() { ...; continue; }
AfterLex(lex_res) == IF lex_res.tag = "LexError" THEN "idle" ELSE "parse"

\* if parse_res.is_err() { ...; continue; }
AfterParse(parse_res) ==
    IF parse_res.tag = "ParseError" THEN "idle" ELSE "generate"

\* compile: one turn of `while lexer.has_program_to_lex()` up to the lex
LexProgram ==
    /\ pc = "idle"
    /\ program_number < Len(stream)
    /\ program_number' = program_number + 1
    /\ stages' = Append(stages, Stage("lex", program_number + 1))
    /\ pc' = AfterLex(stream[program_number + 1])
    /\ UNCHANGED <<vm, build, stream, ast, next_stmt, cg, panes>>

\* compile: parser.parse_program(&token_stream) and the test of its result
ParseProgram ==
    /\ pc = "parse"
    /\ stages' = Append(stages, Stage("parse", program_number))
    /\ pc' = AfterParse(stream[program_number])
    /\ UNCHANGED <<vm, build, stream, ast, next_stmt, program_number, cg, panes>>

\* generate_code is called for the program: lines 113-127
GenerateCode ==
    /\ pc = "generate"
    /\ stages' = Append(stages, Stage("generate", program_number))
    /\ ast' = stream[program_number]
    /\ cg' = ResetForProgram(cg, stream[program_number])
    /\ next_stmt' = 1
    /\ pc' = "block"
    /\ UNCHANGED <<vm, build, stream, program_number, panes>>

\* code_gen_block on the root: lines 146-154
CodeGenBlockEnter ==
    /\ pc = "block"
    /\ cg' = EnterBlock(cg)
    /\ pc' = "statement"
    /\ UNCHANGED <<vm, build, stream, ast, next_stmt, program_number, panes,
                   stages>>

\* code_gen_block on the root: one turn of the loop over the children
CodeGenStatement ==
    /\ pc = "statement"
    /\ next_stmt <= Len(ast.stmts)
    /\ cg' = code_gen_statement(cg, ast.stmts[next_stmt])
    /\ next_stmt' = next_stmt + 1
    /\ pc' = IF cg'.panicked THEN "panicked" ELSE "statement"
    /\ UNCHANGED <<vm, build, stream, ast, program_number, panes, stages>>

\* code_gen_block on the root ends its scope; generate_code adds the HALT
CodeGenHalt ==
    /\ pc = "statement"
    /\ next_stmt > Len(ast.stmts)
    /\ cg' = add_code(end_cur_scope(cg), 0)
    /\ pc' = "backpatch"
    /\ UNCHANGED <<vm, build, stream, ast, next_stmt, program_number, panes,
                   stages>>

\* generate_code line 135
BackpatchAddresses ==
    /\ pc = "backpatch"
    /\ cg' = backpatch_addresses(cg)
    /\ pc' = IF cg'.panicked THEN "panicked" ELSE "display"
    /\ UNCHANGED <<vm, build, stream, ast, next_stmt, program_number, panes,
                   stages>>

\* generate_code line 141
DisplayCode ==
    /\ pc = "display"
    /\ panes' = Append(panes, display_code(cg, program_number))
    /\ pc' = "idle"
    /\ UNCHANGED <<vm, build, stream, ast, next_stmt, program_number, cg, stages>>

Next ==
    \/ LexProgram
    \/ ParseProgram
    \/ GenerateCode
    \/ CodeGenBlockEnter
    \/ CodeGenStatement
    \/ CodeGenHalt
    \/ BackpatchAddresses
    \/ DisplayCode

Spec == Init /\ [][Next]_vars

----------------------------------------------------------------------------
(* The byte-append primitives called one at a time on an emitter that was  *)
(* reset: pc is the name of the last call.  Until the image saturates the  *)
(* four code-side calls take turns by position; any of them may be refused. *)

CodeSideCallAt(p) ==
    <<"add_code", "add_var", "add_temp", "add_jump">>[(p % 4) + 1]

MayCall(call) ==
    /\ ~cg.panicked
    /\ Len(cg.rejected) < MaxRejected
    /\ \/ cg.is_memory_full
       \/ CodeSideCallAt(cg.code_pointer) = call

WriteInit ==
    /\ build \in {"debug", "release"}
    /\ stream = <<>>
    /\ pc = "reset"
    /\ ast = NoAst
    /\ next_stmt = 1
    /\ program_number = 0
    /\ cg = ResetForProgram(NewCodeGenerator, Block(<<>>))
    /\ panes = <<>>
    /\ stages = <<>>
    /\ vm = VmOff

AddCode ==
    /\ MayCall("add_code")
    /\ cg' = add_code(cg, 169)
    /\ pc' = "add_code"
    /\ UNCHANGED <<vm, build, stream, ast, next_stmt, program_number, panes,
                   stages>>

AddVar ==
    /\ MayCall("add_var")
    /\ cg' = add_var(cg, 0)
    /\ pc' = "add_var"
    /\ UNCHANGED <<vm, build, stream, ast, next_stmt, program_number, panes,
                   stages>>

AddTemp ==
    /\ MayCall("add_temp")
    /\ cg' = add_temp(cg, 0)
    /\ pc' = "add_temp"
    /\ UNCHANGED <<vm, build, stream, ast, next_stmt, program_number, panes,
                   stages>>

AddJump ==
    /\ MayCall("add_jump")
    /\ cg' = add_jump(cg)
    /\ pc' = "add_jump"
    /\ UNCHANGED <<vm, build, stream, ast, next_stmt, program_number, panes,
                   stages>>

AddData ==
    /\ ~cg.panicked
    /\ Len(cg.rejected) < MaxRejected
    /\ cg' = add_data(cg, 97)
    /\ pc' = "add_data"
    /\ UNCHANGED <<vm, build, stream, ast, next_stmt, program_number, panes,
                   stages>>

WriteNext ==
    \/ AddCode
    \/ AddVar
    \/ AddTemp
    \/ AddJump
    \/ AddData

WriteSpec == WriteInit /\ [][WriteNext]_vars

TypeOK ==
    /\ pc \in {"idle", "parse", "generate", "block", "statement", "backpatch",
              "display", "panicked", "reset", "add_code", "add_var",
              "add_temp", "add_jump", "add_data", "vm"}
    /\ cg.code_pointer \in 0..255
    /\ cg.heap_pointer \in 0..255
    /\ DOMAIN cg.code_arr = 0..(MemSize - 1)

----------------------------------------------------------------------------
(* Properties *)

Cells == 0..(MemSize - 1)

\* an error was logged for the current program: a failed write of the
\* emission or a collision found by the backpatching pass
Failed == Len(cg.log) > 0

\* the emission of the current program is under way or just over
Emitting == pc \in {"statement", "backpatch"}

\* backpatch_addresses has returned true for the current program
Backpatched == pc = "display" /\ cg.ret

IsPlaceholder(cell) == cell.k \in {"Var", "Temp", "Jump"}

\* C1: a program whose emission fails or whose backpatch pass reports a
\* collision does not reach display_code, so no image is shown for it
C1_NoImageOnFailure == ~(pc = "display" /\ Failed)

\* C2: after backpatch_addresses returns success no cell of the image is
\* Var, Temp or Jump
C2_NoPlaceholders ==
    Backpatched => \A i \in Cells : ~IsPlaceholder(cg.code_arr[i])

C2_Witness ==
    /\ Backpatched
    /\ \A kind \in {"Var", "Temp", "Jump"} :
          \E i \in Cells : cg.emitted[i].k = kind

\* C3: after a successful backpatch every Var and Temp address lies in
\* [code_pointer, heap_pointer] and every Var address is below every Temp
\* address, whatever the order of the cells
C3_SlotsDisjoint ==
    Backpatched =>
        /\ \A i \in Cells :
              cg.emitted[i].k \in {"Var", "Temp"} =>
                  /\ cg.code_arr[i].v >= cg.code_pointer
                  /\ cg.code_arr[i].v <= cg.heap_pointer
        /\ \A i, j \in Cells :
              cg.emitted[i].k = "Var" /\ cg.emitted[j].k = "Temp" =>
                  cg.code_arr[i].v < cg.code_arr[j].v

\* C4 as stated: the cells outside [0, code_pointer) and (heap_pointer, 0xFE]
\* are Empty before backpatching and Code(0x00) after it, and cell 0xFF is
\* Code(0x00) in every state
C4_AsStated ==
    /\ DOMAIN cg.code_arr = Cells
    /\ cg.code_arr[255] = Code(0)
    /\ \A i \in cg.code_pointer..cg.heap_pointer :
          IF pc \in {"display", "idle"} /\ program_number > 0
          THEN cg.code_arr[i] = Code(0)
          ELSE cg.code_arr[i] = Empty

\* C4 amended: the image has 256 cells, cell 0xFF is Empty in every state,
\* and while the overflow flag is clear every cell from code_pointer to
\* heap_pointer is Empty, before and after backpatching; Empty is shown as 00
C4_EmptyOutside ==
    /\ DOMAIN cg.code_arr = Cells
    /\ cg.code_arr[255] = Empty
    /\ ~cg.is_memory_full =>
          \A i \in cg.code_pointer..cg.heap_pointer : cg.code_arr[i] = Empty
    /\ \A n \in DOMAIN panes : panes[n].html[255] = <<"0", "0">>

C4_Witness ==
    /\ pc = "display"
    /\ cg.ret
    /\ ~cg.is_memory_full
    /\ cg.code_pointer > 0
    /\ cg.heap_pointer < 254

\* C5: the scope id the emitter gives a Block is the index of the Block in
\* the pre-order numbering of all Blocks of the AST
C5_ScopeIsPreorder ==
    \A n \in DOMAIN cg.scope_calls :
        cg.scope_calls[n].scope = cg.scope_calls[n].pre

\* C6: a second store_string of a literal that was stored returns the same
\* address and moves neither heap_pointer nor any cell
C6_InternTwice ==
    \A m, n \in DOMAIN cg.store_calls :
        /\ m < n
        /\ cg.store_calls[m].string = cg.store_calls[n].string
        /\ cg.store_calls[m].addr # None
        => /\ cg.store_calls[n].addr = cg.store_calls[m].addr
           /\ ~cg.store_calls[n].moved

C6_Witness ==
    \E m, n \in DOMAIN cg.store_calls :
        /\ m < n
        /\ cg.store_calls[m].string = cg.store_calls[n].string
        /\ cg.store_calls[m].addr # None
        /\ cg.store_calls[m].moved

\* C7: an if with a comparison that is lowered without overflow emits one
\* D0 with one Jump placeholder, and the displacement stored for it, added
\* to the address after the displacement byte, gives the code pointer after
\* the guarded block
C7_IfBranchTarget ==
    \A n \in DOMAIN cg.if_log :
        LET r    == cg.if_log[n]
            cell == cg.code_arr[r.start_addr - 1]
        IN  r.compared /\ ~r.overflowed =>
                /\ r.jumps_made = 1
                /\ cg.code_arr[r.start_addr - 2] = Code(208)
                /\ cg.jumps[r.jump_index + 1] = r.end_addr - r.start_addr
                /\ cell \in {Jump(r.jump_index),
                             Code(r.end_addr - r.start_addr)}
                /\ Backpatched =>
                      /\ cell.k = "Code"
                      /\ r.start_addr + cell.v = r.end_addr

C7_Witness ==
    /\ Backpatched
    /\ \E n \in DOMAIN cg.if_log :
          /\ cg.if_log[n].compared
          /\ ~cg.if_log[n].overflowed
          /\ cg.if_log[n].end_addr > cg.if_log[n].start_addr

\* C8: a while that is lowered without overflow stores the displacement
\* (0x100 - (code_pointer after the tail - loop_start)) mod 256 for its
\* back-branch, so the branch lands on loop_start
C8_WhileBackBranch ==
    \A n \in DOMAIN cg.while_log :
        LET r == cg.while_log[n]
            d == cg.jumps[r.unconditional_jump_index + 1]
        IN  ~r.overflowed =>
                /\ d = (256 - (r.end_addr - r.loop_start_addr)) % 256
                /\ (r.end_addr + d) % 256 = r.loop_start_addr
                /\ Backpatched => cg.code_arr[r.end_addr - 1] = Code(d)

C8_Witness ==
    /\ Backpatched
    /\ \E m, n \in DOMAIN cg.while_log :
          /\ cg.while_log[m].compared
          /\ ~cg.while_log[m].overflowed
          /\ ~cg.while_log[n].compared
          /\ ~cg.while_log[n].overflowed

\* C9: when the emission of a program starts the CodeGenerator is in its
\* initial state whatever was compiled before, and two compiles of the same
\* AST in one stream show the same image
C9_FreshAndRepeatable ==
    /\ pc = "block" =>
          /\ cg.max_scope = NoScope
          /\ \A i \in Cells : cg.code_arr[i] = Empty
          /\ cg.code_pointer = NewCodeGenerator.code_pointer
          /\ cg.heap_pointer = NewCodeGenerator.heap_pointer
          /\ DOMAIN cg.static_table = {}
          /\ DOMAIN cg.string_history = {}
          /\ cg.jumps = <<>>
          /\ cg.temp_index = 0
          /\ ~cg.is_memory_full
    /\ \A m, n \in DOMAIN panes :
          stream[panes[m].program_number] = stream[panes[n].program_number]
              => panes[m].html = panes[n].html

C9_Witness ==
    /\ Len(panes) = 3
    /\ stream[1] = stream[3]
    /\ stream[1] # stream[2]
    /\ \E i \in Cells : Head(panes[2].html[i]) \in {"V", "T", "J"}
    /\ \E i \in Cells : panes[3].html[i] # <<"0", "0">>

\* C10: once the emitter has saturated the overflow diagnostic is logged
\* once for the program, however many writes are attempted afterwards
C10_LoggedOnce == Emitting => Len(cg.log) <= 1

\* C11: after an overflow during the emission of a program every lowering
\* call still returns and generate_code runs to its end for that program:
\* no state with a logged overflow is one where the compile has aborted
C11_ReturnsAfterOverflow == Failed => pc # "panicked"

\* C13: an if or a while whose condition is the literal false leaves the
\* image, both pointers, the static table, the jump table and the string
\* cache as they were, whatever its body holds
C13_DeadCodeEmitsNothing ==
    \A n \in DOMAIN cg.dead_log : cg.dead_log[n].same

C13_Witness ==
    /\ Backpatched
    /\ cg.code_pointer > 1
    /\ \E n \in DOMAIN cg.dead_log :
          cg.dead_log[n].tag = "While" /\ cg.dead_log[n].body > 1
    /\ \E n \in DOMAIN cg.dead_log :
          cg.dead_log[n].tag = "If" /\ cg.dead_log[n].body > 0

\* the rendered image begins with the given bytes
ImageBegins(html, bytes) ==
    \A i \in DOMAIN bytes : html[i - 1] = Hex02(bytes[i])

\* the panes shown for the programs of the stream that are { int a }
PanesOfIntA ==
    {n \in DOMAIN panes :
        stream[panes[n].program_number] = Block(<<VarDecl("Int", "a")>>)}

\* C14 as stated: the image of { int a } begins A9 00 8D 05 00 00
C14_AsStated ==
    \A n \in PanesOfIntA :
        ImageBegins(panes[n].html, <<169, 0, 141, 5, 0, 0>>)

\* C14 amended: the image of { int a } begins A9 00 8D 06 00 00, the halt
\* byte is cell 5 and the Var(0) placeholder in cell 3 is backpatched to
\* 0x06, the first cell after the halt byte; the rest of the image is 00
C14_VarAfterHalt ==
    /\ \A n \in PanesOfIntA :
          /\ ImageBegins(panes[n].html, <<169, 0, 141, 6, 0, 0>>)
          /\ \A i \in 6..(MemSize - 1) : panes[n].html[i] = <<"0", "0">>
    /\ pc = "display" /\ ast = Block(<<VarDecl("Int", "a")>>) =>
          /\ cg.ret
          /\ cg.emitted[3] = Var(0)
          /\ cg.code_arr[3] = Code(6)
          /\ cg.code_arr[5] = Code(0)
          /\ cg.code_pointer = 6

C14_Witness == PanesOfIntA # {}

\* the panes shown for the programs that are { print("hi") print("hi") }
PanesOfHiHi ==
    {n \in DOMAIN panes :
        stream[panes[n].program_number] =
            Block(<<PrintStmt(Char(Hi)), PrintStmt(Char(Hi))>>)}

\* the rendered cells from, from + 1, ... are the given bytes
ImageHolds(html, from, bytes) ==
    \A i \in DOMAIN bytes : html[from + i - 1] = Hex02(bytes[i])

\* one copy of the literal: three cells on the heap, its address in both A0
OneCopyAt252(html) ==
    /\ ImageBegins(html, <<160, 252, 162, 2, 255, 160, 252, 162, 2, 255, 0>>)
    /\ \A i \in 11..251 : html[i] = <<"0", "0">>

\* C15 as stated: cells 0xFC, 0xFD, 0xFE hold 69 68 00
C15_AsStated ==
    \A n \in PanesOfHiHi :
        /\ OneCopyAt252(panes[n].html)
        /\ ImageHolds(panes[n].html, 252, <<105, 104, 0>>)

\* C15 amended: the heap of { print("hi") print("hi") } holds one copy of
\* the literal, in cells 0xFC, 0xFD, 0xFE the bytes 68 69 00, and both A0
\* immediates are 0xFC
C15_OneCopyForward ==
    /\ \A n \in PanesOfHiHi :
          /\ OneCopyAt252(panes[n].html)
          /\ ImageHolds(panes[n].html, 252, <<104, 105, 0>>)
    /\ pc = "display"
          /\ ast = Block(<<PrintStmt(Char(Hi)), PrintStmt(Char(Hi))>>) =>
          /\ {i \in Cells : cg.code_arr[i].k = "Data"} = {252, 253, 254}
          /\ cg.heap_pointer = 251
          /\ cg.string_history = MapInsert(EmptyMap, Hi, 252)
          /\ Len(cg.store_calls) = 2

C15_Witness == PanesOfHiHi # {}

\* the diagnostic that belongs to a refused write of a cell of kind k
KindOfSide(k) == IF k = "Data" THEN "heap" ELSE "stack"

\* the emission was cut short by a panic after the image had saturated: the
\* writes of the rest of the program, the halt byte at least, were to come
CutShort == pc = "panicked" /\ cg.emitted = <<>> /\ cg.is_memory_full

\* C12: a program whose emission has more than 255 cell writes to make has
\* an overflow diagnostic in its log, and the diagnostic of every refused
\* write is that of its side: stack for add_code, add_var, add_temp and
\* add_jump, heap for add_data
C12_OverflowReported ==
    /\ (cg.writes + Len(cg.rejected) > 255 \/ CutShort) =>
          /\ Len(cg.log) > 0
          /\ cg.log[Len(cg.log)] \in {"stack", "heap"}
    /\ \A n \in DOMAIN cg.rejected :
          /\ n <= Len(cg.log)
          /\ cg.log[n] = KindOfSide(cg.rejected[n])

\* the stages run for program k, in the order they were run
StagesOf(k) ==
    LET mine == SelectSeq(stages, LAMBDA r : r.program = k)
    IN  [i \in 1..Len(mine) |-> mine[i].stage]

\* the stages compile runs for a program of the stream
StagesFor(program) ==
    CASE program.tag = "LexError"   -> <<"lex">>
      [] program.tag = "ParseError" -> <<"lex", "parse">>
      [] OTHER                      -> <<"lex", "parse", "generate">>

C17_RefusedWriteFrame ==
    [][cg.is_memory_full /\ ~cg.panicked =>
          /\ ~cg'.ret
          /\ ~cg'.panicked
          /\ Frame(cg') = Frame(cg)
          /\ Len(cg'.rejected) = Len(cg.rejected) + 1]_vars

C17_Witness ==
    /\ cg.is_memory_full
    /\ pc = "add_data"
    /\ cg.rejected = <<"Jump", "Data">>
    /\ cg.writes = 255

\* the cell a call writes when it is not refused
TargetOf(call, s) ==
    IF call = "add_data" THEN s.heap_pointer ELSE s.code_pointer

\* a write with the flag clear and code_pointer = heap_pointer is performed
LastByteWritten ==
    ~cg.is_memory_full /\ on_last_byte(cg) /\ ~cg.panicked =>
        /\ ~cg'.panicked
        /\ cg'.ret
        /\ cg'.log = cg.log
        /\ cg'.is_memory_full
        /\ cg'.code_arr[TargetOf(pc', cg)] # Empty
        /\ cg'.writes = cg.writes + 1
        /\ IF pc' = "add_data"
           THEN cg'.heap_pointer = cg.heap_pointer - 1
           ELSE cg'.code_pointer = cg.code_pointer + 1

\* the flag is set by no other event
FlagSetOnLastByte ==
    ~cg.is_memory_full /\ cg'.is_memory_full => on_last_byte(cg)

\* 255 writes succeed, and none of them logs a diagnostic
Exactly255 ==
    /\ cg.writes <= 255
    /\ cg.is_memory_full <=> cg.writes = 255
    /\ cg.writes + Len(cg.rejected) <= 255 => cg.log = <<>>

\* C18: the write made with code_pointer = heap_pointer is performed,
\* returns success without a diagnostic and sets the overflow flag, nothing
\* else sets the flag, so 255 writes succeed and a program of 255 cells is
\* emitted without an overflow diagnostic
C18_LastByteStillWritten ==
    /\ []Exactly255
    /\ [][LastByteWritten /\ FlagSetOnLastByte]_vars

IsCodeSide(cell) == cell.k \in {"Code", "Var", "Temp", "Jump"}

\* the two regions of the image
TwoEnded ==
    /\ \A i \in Cells :
          /\ i < cg.code_pointer <=> IsCodeSide(cg.code_arr[i])
          /\ (i > cg.heap_pointer /\ i <= 254) <=> cg.code_arr[i].k = "Data"
    /\ cg.code_pointer <= cg.heap_pointer + 1

\* a cell that was written is not written again
WrittenOnce ==
    \A i \in Cells :
        cg.code_arr[i] # Empty => cg'.code_arr[i] = cg.code_arr[i]

\* C19: after any sequence of add_code, add_var, add_temp, add_jump and
\* add_data calls the cells below code_pointer are the code-side cells, the
\* cells above heap_pointer up to 0xFE are the Data cells, code_pointer is
\* at most heap_pointer + 1, and no cell is written twice
C19_TwoEndedLayout == []TwoEnded /\ [][WrittenOnce]_vars

\* C20: a store_string in which a byte write is refused, the terminator or
\* a character, returns no address and leaves the literal out of the string
\* cache
C20_NoAddressOnOverflow ==
    \A n \in DOMAIN cg.store_calls :
        cg.store_calls[n].failed =>
            /\ cg.store_calls[n].addr = None
            /\ ~cg.store_calls[n].cached

\* C21: a store_string of a literal s that is not cached, made with
\* heap_pointer = h and room for its |s| + 1 bytes, writes 00 at h and the
\* characters of s at h - |s| .. h - 1 in forward order, and returns and
\* caches h - |s|
C21_StoredForward ==
    \A n \in DOMAIN cg.store_calls :
        LET r == cg.store_calls[n]
        IN  ~r.hit /\ r.room >= Len(r.string) + 1 =>
                /\ r.addr = r.h - Len(r.string)
                /\ r.cached
                /\ cg.string_history[r.string] = r.addr
                /\ cg.code_arr[r.h] = Data(0)
                /\ \A i \in DOMAIN r.string :
                      cg.code_arr[r.addr + i - 1] = Data(r.string[i])

\* the backpatching pass of the current program has run, to its end or not
PassRun == pc \in {"display", "panicked"} /\ cg.emitted # <<>>

\* C22: a Var(offset) cell is replaced by Code(code_pointer + offset), the
\* exact sum, or the pass fails with a collision; when the sum is above 255
\* the pass fails and no address reduced modulo 256 is written
C22_ExactVarAddress ==
    PassRun =>
        \A i \in Cells :
            cg.emitted[i].k = "Var" =>
                /\ cg.code_arr[i].k = "Code" =>
                      cg.code_arr[i].v = cg.code_pointer + cg.emitted[i].v
                /\ cg.code_pointer + cg.emitted[i].v > 255 =>
                      pc = "display" /\ ~cg.ret

\* C23: for a while with a comparison that is lowered without overflow the
\* exit displacement is the code pointer after the back-branch tail minus
\* body_start, so the exit branch lands on the first cell after the
\* displacement byte of the back-branch
C23_WhileExitPastLoop ==
    \A n \in DOMAIN cg.while_log :
        LET r    == cg.while_log[n]
            d    == cg.jumps[r.body_jump_index + 1]
            cell == cg.code_arr[r.body_start_addr - 1]
        IN  r.compared /\ ~r.overflowed =>
                /\ d = r.end_addr - r.body_start_addr
                /\ d >= 7
                /\ cg.code_arr[r.body_start_addr - 2] = Code(208)
                /\ cell \in {Jump(r.body_jump_index), Code(d)}
                /\ cg.code_arr[r.end_addr - 2] = Code(208)
                /\ cg.code_arr[r.end_addr - 1] \in
                      {Jump(r.unconditional_jump_index),
                       Code(cg.jumps[r.unconditional_jump_index + 1])}
                /\ Backpatched =>
                      /\ cell.k = "Code"
                      /\ r.body_start_addr + cell.v = r.end_addr

C23_Witness ==
    /\ Backpatched
    /\ \E n \in DOMAIN cg.while_log :
          /\ cg.while_log[n].compared
          /\ ~cg.while_log[n].overflowed
          /\ cg.while_log[n].end_addr - cg.while_log[n].body_start_addr > 7
          /\ cg.while_log[n].unconditional_jump_index
                > cg.while_log[n].body_jump_index + 1

\* the lowerings that are a statement or a whole expression: an inner add
\* of a chain (first = false) hands its sum up in the temporary it keeps
WholeLowerings == {b \in cg.balance_log : b.first}

InnerAdds == {b \in cg.balance_log : ~b.first}

\* C24: the temp counter is a balanced LIFO depth: every statement and every
\* whole expression (an Add chain, a comparison nested on either side) that
\* was lowered left temp_index at its value on entry, temp_index is 0
\* between the top-level statements, it never went below 0, and every
\* add_temp call that refers to a stashed value named Temp(temp_index - 1)
\* of that moment, a slot that had been stashed
C24_TempBalanced ==
    /\ \A b \in WholeLowerings : b.exit = b.entry
    /\ \A b \in InnerAdds : b.tag = "Add" /\ b.exit = b.entry + 1
    /\ pc \in {"statement", "backpatch", "display"} => cg.temp_index = 0
    /\ cg.temp_low >= 0
    /\ \A r \in cg.temp_refs :
          /\ r.k >= 0
          /\ r.stash => r.k = r.depth
          /\ ~r.stash => r.k = r.depth - 1
    /\ \A i \in Cells :
          cg.code_arr[i].k = "Temp" =>
              \E r \in cg.temp_refs : r.at = i /\ r.k = cg.code_arr[i].v

\* a program with an Add chain of depth three, comparisons nested on the
\* left and on the right and an if was lowered to its end
C24_Witness ==
    /\ pc = "backpatch"
    /\ \E b \in InnerAdds : b.entry = 0 /\ b.exit = 1
    /\ \E r \in cg.temp_refs : ~r.stash /\ r.k = 1
    /\ \E r \in cg.temp_refs : r.stash /\ r.k = 2
    /\ \E b \in WholeLowerings : b.tag = "NotEq" /\ b.entry = 1
    /\ \E b \in WholeLowerings : b.tag = "If"
    /\ Cardinality(cg.balance_log) >= 8

JumpFaults == {"jumps[index]", "jumps[jump_index]"}

\* C26: every access to the jump table is in bounds, also after overflow:
\* no indexing of jumps was made past its end, and every Jump(j) cell of
\* the image has j below the length of jumps
C26_JumpAccessInBounds ==
    /\ cg.faults \cap JumpFaults = {}
    /\ \A i \in Cells :
          cg.code_arr[i].k = "Jump" => cg.code_arr[i].v < Len(cg.jumps)

\* C27: all 8-bit pointer arithmetic stays within 0..255: heap_pointer - 1
\* in add_data, heap_pointer + 1 in store_string, code_pointer + 1 in the
\* code-side writes, code_pointer + offset, var_addr + 1,
\* heap_pointer - offset and temp_addr - 1 in the backpatching pass and the
\* negation of the while lowering were never evaluated out of range
C27_ArithmeticInRange ==
    /\ cg.faults \subseteq JumpFaults
    /\ cg.code_pointer \in 0..255
    /\ cg.heap_pointer \in 0..255

\* the cells of the emitted image that were Var or Temp placeholders
SlotCells == {i \in Cells : cg.emitted[i].k \in {"Var", "Temp"}}

\* C28: cell 0xFF is never written and is never the address of a variable
\* or of a temp slot: the cell stays unused in every state, after a
\* successful backpatch no Var or Temp cell was resolved to 0xFF, and every
\* image shown renders the cell as 00
C28_CellFFUntouched ==
    /\ cg.code_arr[255] = Empty
    /\ Backpatched => \A i \in SlotCells : cg.code_arr[i] # Code(255)
    /\ \A n \in DOMAIN panes : panes[n].html[255] = <<"0", "0">>

\* an image with variable slots, temp slots and the EC FF 00 of a Z-flip or
\* of a back-branch tail and a literal on the heap was backpatched with
\* success
C28_Witness ==
    /\ Backpatched
    /\ \E i \in SlotCells : cg.emitted[i].k = "Var"
    /\ \E i \in SlotCells : cg.emitted[i].k = "Temp"
    /\ \E i \in 0..253 :
          /\ cg.code_arr[i] = Code(236)
          /\ cg.code_arr[i + 1] = Code(255)
          /\ cg.code_arr[i + 2] = Code(0)
    /\ cg.heap_pointer < 254

\* the image before the backpatching pass, with its Temp cells
Symbolic == IF pc \in {"statement", "backpatch"} THEN cg.code_arr
            ELSE cg.emitted

\* C29: live temporaries never alias: for every comparison lowered, with its
\* left operand spilled by 8D Temp(k) 00, every Temp cell emitted for the
\* right operand, stores and reloads alike and however deeply nested,
\* carries an offset greater than k, and the closing EC reads Temp(k)
C29_LiveTempsDistinct ==
    (pc \in {"statement", "backpatch"} \/ PassRun) =>
        \A c \in cg.compare_log :
            /\ c.k >= 0
            /\ \A i \in c.lo .. (c.hi - 1) :
                  Symbolic[i].k = "Temp" => Symbolic[i].v > c.k
            /\ ~c.cut =>
                  /\ Symbolic[c.lo - 3] = Code(141)
                  /\ Symbolic[c.lo - 2] = Temp(c.k)
                  /\ Symbolic[c.hi] = Code(236)
                  /\ Symbolic[c.hi + 1] = Temp(c.k)

\* a comparison whose left operand is in Temp(1) has a right operand that
\* is itself a comparison, whose value is stored in Temp(2), and another
\* has an Add chain inside its right operand
C29_Witness ==
    /\ pc = "backpatch"
    /\ \E c \in cg.compare_log :
          /\ c.k = 1 /\ ~c.cut
          /\ \E i \in c.lo .. (c.hi - 1) :
                cg.code_arr[i] = Temp(2) /\ cg.code_arr[i - 1] = Code(141)
    /\ \E c \in cg.compare_log :
          /\ c.k = 0 /\ ~c.cut
          /\ \E i \in c.lo .. (c.hi - 1) : cg.code_arr[i - 1] = Code(109)

\* the number of bytes of the sequence the machine runs
TailLen == IF vm.seq = "flip" THEN 9 ELSE 6

\* C30: on the target machine, with cell 0xFF holding 0, the sequence
\* A2 00 D0 02 A2 01 EC FF 00 ends with the zero flag inverted for both
\* values of Z it may start with, and the sequence A9 00 D0 02 A9 01 of
\* get_z_flag_value ends with A = 1 when Z was 1 before it and A = 0 when
\* Z was 0; both end at the first byte after the sequence
C30_TailsOnTheMachine ==
    /\ Mem(vm.seq, 255) = 0
    /\ (vm.halted /\ vm.seq # "off") =>
          /\ vm.pc = TailLen
          /\ vm.seq = "flip" => vm.Z = 1 - vm.z0
          /\ vm.seq = "materialise" => vm.A = vm.z0 /\ vm.Z = vm.z0

\* the flip has run to its end from Z = 1 and X = 3, through A2 01
C30_Witness ==
    /\ vm.halted
    /\ vm.seq = "flip"
    /\ vm.z0 = 1 /\ vm.Z = 0
    /\ vm.X = 1 /\ vm.A = MaxReg
    /\ vm.pc = 9

====
